---- MODULE Spec2Model ----
(***************************************************************************)
(* Model of script.js: a point mass on the parabola y = trackScale * x^2,  *)
(* integrated by the animation-frame loop, with the energy bars computed   *)
(* by updateCharts and the mouse/touch and control handlers.               *)
(*                                                                         *)
(* JavaScript numbers are modelled as fixed-point integers:                *)
(*   x, y        hundredths of a pixel                                     *)
(*   v           hundredths of a pixel per second                          *)
(*   gravity     tenths of m/s^2                                           *)
(*   friction    thousandths                                               *)
(*   energies    millionths of a joule                                     *)
(*   timestamps  milliseconds; dt and subDt in units of 0.0001 s           *)
(* Every product is divided back to its unit with rounding to nearest.     *)
(***************************************************************************)
EXTENDS Integers, Sequences, FiniteSets, TLC

VARIABLES
    simRunning,      \* script.js:24
    dragging,        \* script.js:25
    state,           \* script.js:27-38 (x, y, v, gravity, friction, thermalEnergy, initialTotalEnergy)
    lastTime,        \* script.js:71
    toggleChecked,   \* toggleFriction.checked
    sliderFriction,  \* sliderFriction.value
    sliderGravity,   \* sliderGravity.value
    report,          \* pe, ke, thermal, total as last computed by updateCharts
    subDt,           \* dt handed to updatePhysics by the handler that just ran, NoStep if none
    hist,            \* the handlers that ran last, longest tracked suffix
    pointer          \* mouse position handed to startDrag by the handler that just ran

vars == <<simRunning, dragging, state, lastTime, toggleChecked, sliderFriction,
          sliderGravity, report, subDt, hist, pointer>>

----------------------------------------------------------------------------
(* Bounds of the model and the inputs drawn by the handlers.               *)

\* frames are drawn while the timestamp stays within MaxTime milliseconds
MaxTime == 220

\* the last animation-frame timestamp of a long run, in ms
MaxRunTime == 23000

\* the time between two animation frames of a long run, in ms
RunGap == 100

\* gaps between two animation-frame timestamps, in milliseconds
Gaps == {60, 150}

\* states and steps a single sub-step is applied to: x and v in hundredths of
\* a pixel (per second), friction in thousandths, dt in units of 0.0001 s
StepXs == {-10000, -4000, 0, 5000}
StepVs == {-8000, 0, 6000}
StepFrictions == {0, 100, 500}
StepDts == {50, 100}

\* values the gravity slider can take (tenths of m/s^2)
GravityValues == {98, 160}

\* values the friction slider can take (thousandths)
FrictionValues == {0, 500}

\* canvas size in pixels, as set by resize()
width == 600
height == 400

\* pointer x positions of a drag move, in pixels
DragXs == {240, 300, 380}

\* pointer positions of a grab, in pixels: on the mass at its reset place, at
\* each place a drag move can put it, and far from the track
GrabPoints == {<<200, 300>>, <<240, 332>>, <<300, 350>>, <<380, 318>>, <<40, 40>>}

NoStep == -1

NoPointer == <<>>

----------------------------------------------------------------------------
(* Arithmetic helpers.                                                     *)

Abs(a) == IF a < 0 THEN -a ELSE a

Max(a, b) == IF a > b THEN a ELSE b

\* a / b rounded to the nearest integer (b > 0), halves away from zero
RDiv(a, b) == IF a >= 0 THEN (2 * a + b) \div (2 * b)
                        ELSE -((2 * (-a) + b) \div (2 * b))

RECURSIVE SqrtIter(_, _, _)
SqrtIter(n, lo, hi) ==
    IF lo >= hi THEN lo
    ELSE LET mid == (lo + hi + 1) \div 2
         IN IF mid * mid <= n THEN SqrtIter(n, mid, hi) ELSE SqrtIter(n, lo, mid - 1)

\* Math.sqrt on fixed-point input: floor of the square root
Sqrt(n) == SqrtIter(n, 0, 30000)

----------------------------------------------------------------------------
(* Program constants.                                                      *)

mass == 1
\* trackScale = 0.005 = 1 / TrackScaleInv
TrackScaleInv == 200
\* pixelsPerMeter is never read
subSteps == 10
\* dt cap 0.1 s, in units of 0.0001 s
DtCap == 1000
\* hit radius of a grab, hundredths of a pixel
GrabRadius == 4000
ResetX == -10000

----------------------------------------------------------------------------
(* updatePositionFromX: y = trackScale * x * x                             *)

TrackY(x) == RDiv(x * x, TrackScaleInv * 100)

updatePositionFromX(st) == [st EXCEPT !.y = TrackY(st.x)]

----------------------------------------------------------------------------
(* updatePhysics: one integrator sub-step of dt (units of 0.0001 s).       *)
(* slope, sinTheta and cosTheta are scaled by 10000.                       *)

\* g = state.gravity * 20, gravity in tenths
ScaledG(st) == (st.gravity * 20) \div 10

Slope(x) == RDiv(2 * x * 100, TrackScaleInv)

Root(x) == Sqrt(100000000 + Slope(x) * Slope(x))

SinTheta(x) == RDiv(Slope(x) * 10000, Root(x))

CosTheta(x) == RDiv(100000000, Root(x))

\* a_t after the friction branch, hundredths of a pixel per s^2
Accel(st) ==
    LET a_g == RDiv(-(ScaledG(st) * SinTheta(st.x)), 100)
    IN IF st.friction > 0
       THEN a_g + RDiv(-(st.friction * st.v), 1000)
       ELSE a_g

\* updatePhysics advancing x with the velocity from before the step
updatePhysicsExplicit(st, dt) ==
    LET v1 == st.v + RDiv(Accel(st) * dt, 10000)
        x1 == st.x + RDiv(RDiv(st.v * CosTheta(st.x), 10000) * dt, 10000)
    IN updatePositionFromX([st EXCEPT !.v = v1, !.x = x1])

\* updatePhysics without the updatePositionFromX call of line 123
updatePhysicsKeepY(st, dt) ==
    LET v1 == st.v + RDiv(Accel(st) * dt, 10000)
        x1 == st.x + RDiv(RDiv(v1 * CosTheta(st.x), 10000) * dt, 10000)
    IN [st EXCEPT !.v = v1, !.x = x1]

updatePhysics(st, dt) ==
    LET v1 == st.v + RDiv(Accel(st) * dt, 10000)
        x1 == st.x + RDiv(RDiv(v1 * CosTheta(st.x), 10000) * dt, 10000)
    IN updatePositionFromX([st EXCEPT !.v = v1, !.x = x1])

RECURSIVE SubStepLoop(_, _, _)
SubStepLoop(st, dt, n) ==
    IF n = 0 THEN st ELSE SubStepLoop(updatePhysics(st, dt), dt, n - 1)

----------------------------------------------------------------------------
(* updateCharts: the energy report and the baseline bookkeeping.           *)

\* pe = mass * g * y * scaleE, in millionths of a joule
PotentialE(st) == mass * ScaledG(st) * st.y * 5

\* ke = 0.5 * mass * v * v * scaleE, in millionths of a joule
KineticE(st) == RDiv(mass * st.v * st.v, 40)

\* CaptureBaseline with line 170 testing (pe + ke) > 0 alone
CaptureBaselineAlways(st) ==
    LET pk == PotentialE(st) + KineticE(st)
    IN IF pk > 0
       THEN [st EXCEPT !.initialTotalEnergy = pk]
       ELSE st

\* lines 169-172: lazy capture of the baseline
CaptureBaseline(st) ==
    LET pk == PotentialE(st) + KineticE(st)
    IN IF st.initialTotalEnergy = 0 /\ pk > 0
       THEN [st EXCEPT !.initialTotalEnergy = pk]
       ELSE st

\* updateCharts without the dragging branch of lines 175-178
DragBaselineOff(st, drg) == st

\* lines 175-178: while dragging the baseline follows the current energy
DragBaseline(st, drg) ==
    IF drg
    THEN [st EXCEPT !.initialTotalEnergy = PotentialE(st) + KineticE(st),
                    !.thermalEnergy = 0]
    ELSE st

\* Thermal without the clamp of line 186
ThermalNoClamp(st) ==
    IF st.initialTotalEnergy # 0
    THEN st.initialTotalEnergy - (PotentialE(st) + KineticE(st))
    ELSE 0

\* lines 183-187: thermal as the clamped residual
Thermal(st) ==
    IF st.initialTotalEnergy # 0
    THEN LET t == st.initialTotalEnergy - (PotentialE(st) + KineticE(st))
         IN IF t < 0 THEN 0 ELSE t
    ELSE 0

ChartsState(st, drg) == DragBaseline(CaptureBaseline(st), drg)

\* ChartsReport with line 189 leaving thermal out of the total
ChartsReportNoThermal(st) ==
    [pe |-> PotentialE(st), ke |-> KineticE(st), thermal |-> Thermal(st),
     total |-> PotentialE(st) + KineticE(st)]

ChartsReport(st) ==
    [pe |-> PotentialE(st), ke |-> KineticE(st), thermal |-> Thermal(st),
     total |-> PotentialE(st) + KineticE(st) + Thermal(st)]

----------------------------------------------------------------------------
(* The longest suffix of the handler history that starts a tracked         *)
(* sequence; at least the last handler is kept.                            *)

Patterns == { <<"grab", "drag", "release", "frame">>,
              <<"grab", "drag", "release", "toggle", "frame">>,
              <<"reset", "reset">> }

IsPrefix(p, q) == Len(p) <= Len(q) /\ SubSeq(q, 1, Len(p)) = p

Track(h, op) ==
    LET s == Append(h, op)
        ok == { i \in 1..Len(s) : \E q \in Patterns : IsPrefix(SubSeq(s, i, Len(s)), q) }
    IN IF ok = {} THEN <<op>>
       ELSE SubSeq(s, CHOOSE i \in ok : \A j \in ok : i <= j, Len(s))

----------------------------------------------------------------------------
(* resetSimulation                                                         *)

\* ResetState with line 42 written as state.x -= 100
ResetStateShift(st) ==
    updatePositionFromX(
        [st EXCEPT !.x = st.x + ResetX, !.v = 0, !.thermalEnergy = 0,
                   !.initialTotalEnergy = 0,
                   !.friction = IF toggleChecked THEN sliderFriction ELSE 0,
                   !.gravity = sliderGravity])

ResetState(st) ==
    updatePositionFromX(
        [st EXCEPT !.x = ResetX, !.v = 0, !.thermalEnergy = 0,
                   !.initialTotalEnergy = 0,
                   !.friction = IF toggleChecked THEN sliderFriction ELSE 0,
                   !.gravity = sliderGravity])

resetSimulation ==
    /\ state' = ChartsState(ResetState(state), dragging)
    /\ report' = ChartsReport(state')
    /\ simRunning' = FALSE
    /\ subDt' = NoStep
    /\ pointer' = NoPointer
    /\ hist' = Track(hist, "reset")
    /\ UNCHANGED <<dragging, lastTime, toggleChecked, sliderFriction, sliderGravity>>

----------------------------------------------------------------------------
(* loop(timestamp)                                                         *)

\* FrameDt without the cap of line 77
FrameDtNoCap(timestamp) ==
    LET last == IF lastTime = 0 THEN timestamp ELSE lastTime
    IN (timestamp - last) * 10

\* dt = (timestamp - lastTime) / 1000, capped at 0.1 s; units of 0.0001 s
FrameDt(timestamp) ==
    LET last == IF lastTime = 0 THEN timestamp ELSE lastTime
        dt == (timestamp - last) * 10
    IN IF dt > DtCap THEN DtCap ELSE dt

SubDt(timestamp) == FrameDt(timestamp) \div subSteps

\* loop with line 79 testing simRunning alone
loopIgnoreDragging(timestamp) ==
    /\ timestamp <= MaxTime
    /\ lastTime' = timestamp
    /\ IF simRunning
       THEN /\ state' = ChartsState(SubStepLoop(state, SubDt(timestamp), subSteps), dragging)
            /\ subDt' = SubDt(timestamp)
       ELSE /\ state' = ChartsState(state, dragging)
            /\ subDt' = NoStep
    /\ report' = ChartsReport(state')
    /\ hist' = Track(hist, "frame")
    /\ pointer' = NoPointer
    /\ UNCHANGED <<simRunning, dragging, toggleChecked, sliderFriction, sliderGravity>>

\* the body of loop, lines 73-89
frame(timestamp) ==
    /\ lastTime' = timestamp
    /\ IF simRunning /\ ~dragging
       THEN /\ state' = ChartsState(SubStepLoop(state, SubDt(timestamp), subSteps), dragging)
            /\ subDt' = SubDt(timestamp)
       ELSE /\ state' = ChartsState(state, dragging)
            /\ subDt' = NoStep
    /\ report' = ChartsReport(state')
    /\ hist' = Track(hist, "frame")
    /\ pointer' = NoPointer
    /\ UNCHANGED <<simRunning, dragging, toggleChecked, sliderFriction, sliderGravity>>

\* loop as requestAnimationFrame calls it, within the time the model covers
loop(timestamp) ==
    /\ timestamp <= MaxTime
    /\ frame(timestamp)

----------------------------------------------------------------------------
(* startDrag, drag, endDrag                                                *)

centerX == width \div 2
bottomY == height - 50

\* Math.hypot(mouseX - ballX, mouseY - ballY) < 40, in hundredths of a pixel
Hit(mouseX, mouseY) ==
    LET dx == mouseX * 100 - (centerX * 100 + state.x)
        dy == mouseY * 100 - (bottomY * 100 - state.y)
    IN /\ Abs(dx) < GrabRadius
       /\ Abs(dy) < GrabRadius
       /\ dx * dx + dy * dy < GrabRadius * GrabRadius

\* startDrag without line 233
startDragKeepSpeed(mouseX, mouseY) ==
    /\ IF Hit(mouseX, mouseY)
       THEN /\ dragging' = TRUE
            /\ simRunning' = FALSE
            /\ hist' = Track(hist, "grab")
            /\ UNCHANGED state
       ELSE /\ UNCHANGED <<dragging, simRunning, state>>
            /\ hist' = Track(hist, "miss")
    /\ subDt' = NoStep
    /\ pointer' = <<mouseX, mouseY>>
    /\ UNCHANGED <<lastTime, toggleChecked, sliderFriction, sliderGravity, report>>

\* startDrag without the distance test of line 228
startDragAlways(mouseX, mouseY) ==
    /\ dragging' = TRUE
    /\ simRunning' = FALSE
    /\ state' = [state EXCEPT !.v = 0]
    /\ hist' = Track(hist, "grab")
    /\ subDt' = NoStep
    /\ pointer' = <<mouseX, mouseY>>
    /\ UNCHANGED <<lastTime, toggleChecked, sliderFriction, sliderGravity, report>>

\* startDrag without line 230
startDragKeepRunning(mouseX, mouseY) ==
    /\ IF Hit(mouseX, mouseY)
       THEN /\ dragging' = TRUE
            /\ state' = [state EXCEPT !.v = 0]
            /\ hist' = Track(hist, "grab")
            /\ UNCHANGED simRunning
       ELSE /\ UNCHANGED <<dragging, simRunning, state>>
            /\ hist' = Track(hist, "miss")
    /\ subDt' = NoStep
    /\ pointer' = <<mouseX, mouseY>>
    /\ UNCHANGED <<lastTime, toggleChecked, sliderFriction, sliderGravity, report>>

startDrag(mouseX, mouseY) ==
    /\ IF Hit(mouseX, mouseY)
       THEN /\ dragging' = TRUE
            /\ simRunning' = FALSE
            /\ state' = [state EXCEPT !.v = 0]
            /\ hist' = Track(hist, "grab")
       ELSE /\ UNCHANGED <<dragging, simRunning, state>>
            /\ hist' = Track(hist, "miss")
    /\ subDt' = NoStep
    /\ pointer' = <<mouseX, mouseY>>
    /\ UNCHANGED <<lastTime, toggleChecked, sliderFriction, sliderGravity, report>>

DragState(st, mouseX) ==
    updatePositionFromX(
        [st EXCEPT !.x = (mouseX - centerX) * 100])

drag(mouseX) ==
    /\ dragging
    /\ state' = ChartsState(
                   [DragState(state, mouseX) EXCEPT !.thermalEnergy = 0,
                                                    !.initialTotalEnergy = 0],
                   dragging)
    /\ report' = ChartsReport(state')
    /\ subDt' = NoStep
    /\ pointer' = NoPointer
    /\ hist' = Track(hist, "drag")
    /\ UNCHANGED <<simRunning, dragging, lastTime, toggleChecked, sliderFriction, sliderGravity>>

\* endDrag that also restarts the run
endDragResume ==
    /\ dragging' = FALSE
    /\ simRunning' = TRUE
    /\ subDt' = NoStep
    /\ pointer' = NoPointer
    /\ hist' = Track(hist, "release")
    /\ UNCHANGED <<state, lastTime, toggleChecked, sliderFriction, sliderGravity, report>>

endDrag ==
    /\ dragging' = FALSE
    /\ subDt' = NoStep
    /\ pointer' = NoPointer
    /\ hist' = Track(hist, "release")
    /\ UNCHANGED <<simRunning, state, lastTime, toggleChecked, sliderFriction,
                   sliderGravity, report>>

----------------------------------------------------------------------------
(* Controls                                                                *)

startPause ==
    /\ simRunning' = ~simRunning
    /\ subDt' = NoStep
    /\ pointer' = NoPointer
    /\ hist' = Track(hist, "toggle")
    /\ UNCHANGED <<dragging, state, lastTime, toggleChecked, sliderFriction,
                   sliderGravity, report>>

toggleFrictionChange ==
    /\ toggleChecked' = ~toggleChecked
    /\ state' = [state EXCEPT !.friction = IF toggleChecked' THEN sliderFriction ELSE 0]
    /\ subDt' = NoStep
    /\ pointer' = NoPointer
    /\ hist' = Track(hist, "frictionToggle")
    /\ UNCHANGED <<simRunning, dragging, lastTime, sliderFriction, sliderGravity, report>>

\* the friction slider handler without the toggle test of line 282
sliderFrictionInputAnyToggle(val) ==
    /\ val # sliderFriction
    /\ sliderFriction' = val
    /\ state' = [state EXCEPT !.friction = val]
    /\ subDt' = NoStep
    /\ pointer' = NoPointer
    /\ hist' = Track(hist, "frictionSlider")
    /\ UNCHANGED <<simRunning, dragging, lastTime, toggleChecked, sliderGravity, report>>

sliderFrictionInput(val) ==
    /\ val # sliderFriction
    /\ sliderFriction' = val
    /\ state' = [state EXCEPT !.friction = IF toggleChecked THEN val ELSE 0]
    /\ subDt' = NoStep
    /\ pointer' = NoPointer
    /\ hist' = Track(hist, "frictionSlider")
    /\ UNCHANGED <<simRunning, dragging, lastTime, toggleChecked, sliderGravity, report>>

\* the gravity slider handler also clearing the baseline
sliderGravityInputRebase(val) ==
    /\ val # sliderGravity
    /\ sliderGravity' = val
    /\ state' = [state EXCEPT !.gravity = val, !.initialTotalEnergy = 0]
    /\ subDt' = NoStep
    /\ pointer' = NoPointer
    /\ hist' = Track(hist, "gravity")
    /\ UNCHANGED <<simRunning, dragging, lastTime, toggleChecked, sliderFriction, report>>

sliderGravityInput(val) ==
    /\ val # sliderGravity
    /\ sliderGravity' = val
    /\ state' = [state EXCEPT !.gravity = val]
    /\ subDt' = NoStep
    /\ pointer' = NoPointer
    /\ hist' = Track(hist, "gravity")
    /\ UNCHANGED <<simRunning, dragging, lastTime, toggleChecked, sliderFriction, report>>

----------------------------------------------------------------------------
(* Init: the page after resize(), resetSimulation() and before the first   *)
(* animation frame; the controls hold whatever the page's markup gives.    *)

InitialState ==
    [x |-> 0, y |-> 0, v |-> 0, gravity |-> 98, friction |-> 0,
     thermalEnergy |-> 0, initialTotalEnergy |-> 0]

Init ==
    /\ toggleChecked \in BOOLEAN
    /\ sliderFriction \in FrictionValues
    /\ sliderGravity \in GravityValues
    /\ dragging = FALSE
    /\ simRunning = FALSE
    /\ lastTime = 0
    /\ state = ChartsState(ResetState(InitialState), FALSE)
    /\ report = ChartsReport(state)
    /\ subDt = NoStep
    /\ hist = <<"reset">>
    /\ pointer = NoPointer

Next ==
    \/ \E gap \in Gaps : loop(lastTime + gap)
    \/ \E p \in GrabPoints : startDrag(p[1], p[2])
    \/ \E mx \in DragXs : drag(mx)
    \/ endDrag
    \/ startPause
    \/ resetSimulation
    \/ toggleFrictionChange
    \/ \E val \in FrictionValues : sliderFrictionInput(val)
    \/ \E val \in GravityValues : sliderGravityInput(val)

Spec == Init /\ [][Next]_vars

----------------------------------------------------------------------------
(* A long run: the page as loaded with friction off, the run toggle, and   *)
(* animation frames RunGap apart; no grab, no reset, no parameter change.  *)

RunInit ==
    /\ Init
    /\ ~toggleChecked
    /\ sliderFriction = 0

RunFrame ==
    /\ lastTime + RunGap <= MaxRunTime
    /\ frame(lastTime + RunGap)

RunNext ==
    \/ RunFrame
    \/ startPause

SpecRun == RunInit /\ [][RunNext]_vars

----------------------------------------------------------------------------
(* One call of updatePhysics on a state drawn from the step inputs.        *)

StepInit ==
    /\ \E x \in StepXs, v \in StepVs, f \in StepFrictions, g \in GravityValues :
          /\ state = updatePositionFromX(
                         [InitialState EXCEPT !.x = x, !.v = v, !.friction = f,
                                              !.gravity = g])
          /\ sliderFriction = f
          /\ sliderGravity = g
          /\ toggleChecked = (f > 0)
    /\ report = ChartsReport(state)
    /\ simRunning = TRUE
    /\ dragging = FALSE
    /\ lastTime = 0
    /\ subDt = NoStep
    /\ hist = <<"init">>
    /\ pointer = NoPointer

physicsStep(dt) ==
    /\ subDt = NoStep
    /\ state' = updatePhysics(state, dt)
    /\ subDt' = dt
    /\ hist' = <<"substep">>
    /\ UNCHANGED <<simRunning, dragging, lastTime, toggleChecked, sliderFriction,
                   sliderGravity, report, pointer>>

StepNext == \E dt \in StepDts : physicsStep(dt)

SpecStep == StepInit /\ [][StepNext]_vars

----------------------------------------------------------------------------
(* Properties.                                                             *)

Last(h) == h[Len(h)]

GrabDragRelease == <<"grab", "drag", "release">>

Baseline == state.initialTotalEnergy

\* a frame step: only loop assigns lastTime
FrameStep == lastTime' # lastTime

\* C1: the thermal energy reported by updateCharts is never negative
C1_ThermalNonNegative == report.thermal >= 0

\* C1 witness: a report whose residual was negative and was clamped to zero
C1_Witness ==
    /\ Baseline # 0
    /\ report.pe + report.ke > Baseline
    /\ report.thermal = 0

\* C2 as stated: with a baseline and not dragging, the reported total equals
\* initialTotalEnergy
C2_TotalEqualsBaseline ==
    (Baseline # 0 /\ ~dragging) => report.total = Baseline

\* C2 amended: with a baseline and not dragging, the reported total is the
\* larger of initialTotalEnergy and potential + kinetic
C2_TotalIsMaxOfBaseline ==
    (Baseline # 0 /\ ~dragging) =>
        /\ report.total = Max(Baseline, report.pe + report.ke)
        /\ report.thermal = Max(0, Baseline - (report.pe + report.ke))

\* C2 witness: not dragging, a positive thermal residual fills the total up to
\* the baseline
C2_Witness ==
    /\ Baseline # 0
    /\ ~dragging
    /\ report.thermal > 0
    /\ report.total = Baseline

\* C3: after grab (hit), drag, release and one frame, thermal is 0 and the
\* baseline equals potential + kinetic of the state the drag left
C3_DragRebaselines ==
    hist = Append(GrabDragRelease, "frame") =>
        /\ report.thermal = 0
        /\ subDt = NoStep
        /\ state.v = 0
        /\ Baseline = PotentialE(state) + KineticE(state)

\* C3 witness: the sequence has run and left a captured baseline
C3_Witness ==
    /\ hist = Append(GrabDragRelease, "frame")
    /\ Baseline > 0
    /\ report.thermal = 0

\* C4 as stated: a reset leaves Idle with x = -100, v = 0 and thermal cleared
C4_ResetLeavesIdle ==
    Last(hist) = "reset" =>
        /\ ~simRunning
        /\ ~dragging
        /\ state.x = ResetX
        /\ state.v = 0
        /\ state.thermalEnergy = 0
        /\ report.thermal = 0

\* C5 as stated: while dragging, simRunning is false
C5_DraggingNotRunning == dragging => ~simRunning

\* C6 as stated: a release that ends a drag leaves simRunning false and
\* dragging false
C6_ReleaseLeavesIdle ==
    [][(dragging /\ ~dragging') => (~simRunning' /\ ~dragging')]_vars

\* C7 as stated: after grab, drag to a point off the bottom and release, the
\* next frame with elapsed time moves the mass
C7_ReleaseResumesMotion ==
    [][(/\ hist = GrabDragRelease
        /\ FrameStep
        /\ lastTime # 0
        /\ state.x # 0) => state'.x # state.x]_vars

\* C7 amended: after grab, drag and release a frame leaves x, y and v as the
\* drag left them; once the run toggle is pressed, a frame with elapsed time
\* moves the mass from a point off the bottom
C7_MotionResumesAfterToggle ==
    [][/\ (hist = GrabDragRelease /\ FrameStep) =>
              /\ state'.x = state.x
              /\ state'.y = state.y
              /\ state'.v = state.v
       /\ (/\ hist = Append(GrabDragRelease, "toggle")
           /\ FrameStep
           /\ lastTime # 0
           /\ state.x # 0) => state'.x # state.x]_vars

\* C7 witness: grab, drag off the bottom, release, frame: the mass is at rest
\* where the drag put it
C7_Witness ==
    /\ hist = Append(GrabDragRelease, "frame")
    /\ state.x # 0
    /\ state.x # ResetX
    /\ state.v = 0
    /\ ~simRunning

\* C8: a frame makes sub-steps exactly when simRunning and not dragging,
\* otherwise it leaves x, y and v unchanged; every frame leaves the report
\* that updateCharts computes from the state it ends in
C8_FrameIntegratesOnlyRunning ==
    [][FrameStep =>
        /\ (simRunning /\ ~dragging) => subDt' # NoStep
        /\ ~(simRunning /\ ~dragging) =>
              /\ subDt' = NoStep
              /\ state'.x = state.x
              /\ state'.y = state.y
              /\ state'.v = state.v
        /\ report'.pe = PotentialE(state')
        /\ report'.ke = KineticE(state')
        /\ report'.thermal = Max(0, IF state'.initialTotalEnergy = 0 THEN 0
                                    ELSE state'.initialTotalEnergy
                                         - (report'.pe + report'.ke))
        /\ report'.total = report'.pe + report'.ke + report'.thermal]_vars

\* C8 witness: a frame ran while dragging with simRunning set and made no
\* sub-step
C8_Witness ==
    /\ Last(hist) = "frame"
    /\ simRunning
    /\ dragging
    /\ subDt = NoStep
    /\ lastTime > 60

\* C9: the dt handed to a sub-step is a tenth of the elapsed time capped at
\* 0.1 s, so never more than 0.01 s, and a frame makes 10 such sub-steps
C9_SubStepAtMostHundredth ==
    [][(FrameStep /\ subDt' # NoStep) =>
        /\ subDt' <= 100
        /\ subDt' * 10 <= (lastTime' - lastTime) * 10
        /\ state' = ChartsState(
               updatePhysics(updatePhysics(updatePhysics(updatePhysics(updatePhysics(
               updatePhysics(updatePhysics(updatePhysics(updatePhysics(updatePhysics(
                   state, subDt'), subDt'), subDt'), subDt'), subDt'),
                   subDt'), subDt'), subDt'), subDt'), subDt'),
               dragging)]_vars

\* C9 witness: a frame 150 ms after the last one stepped with 0.01 s
C9_Witness ==
    /\ Last(hist) = "frame"
    /\ subDt = 100

\* C10: a reset right after a reset changes nothing
C10_ResetIdempotent ==
    [][(Last(hist) = "reset" /\ hist' = <<"reset", "reset">>) =>
        /\ state' = state
        /\ report' = report
        /\ simRunning' = simRunning
        /\ dragging' = dragging]_vars

\* C10 witness: two resets in a row after frames have run, a baseline captured
C10_Witness ==
    /\ hist = <<"reset", "reset">>
    /\ lastTime # 0
    /\ Baseline # 0

\* potential + kinetic of the last report
Mechanical == report.pe + report.ke

C12_TotalWithinTolerance ==
    (state.friction = 0 /\ ~dragging /\ Baseline # 0) =>
        /\ report.total * 100 <= Baseline * 105
        /\ report.total * 100 >= Baseline * 95

\* a grab step: only startDrag hands over a pointer position
GrabStep == pointer' # NoPointer

\* C13: a grab sets dragging exactly when the pointer is within 40 px of the
\* mass's centre; a miss leaves dragging, simRunning, the mass state, the
\* baseline and the report as they were; a hit leaves simRunning false
C13_GrabHitsWithinRadius ==
    [][GrabStep =>
        /\ Hit(pointer'[1], pointer'[2]) =>
              /\ dragging'
              /\ ~simRunning'
        /\ ~Hit(pointer'[1], pointer'[2]) =>
              /\ dragging' = dragging
              /\ simRunning' = simRunning
              /\ state' = state
              /\ report' = report]_vars

\* C13 witness: a grab at the reset place hit the mass after frames had moved
\* it a little, and the run is stopped
C13_Witness ==
    /\ Last(hist) = "grab"
    /\ pointer = <<200, 300>>
    /\ dragging
    /\ ~simRunning
    /\ state.x # ResetX
    /\ state.x < ResetX + GrabRadius

\* C14 as stated: right after a grab that hits, v is 0 and initialTotalEnergy
\* is unset
C14_GrabInvalidatesBaseline ==
    Last(hist) = "grab" =>
        /\ state.v = 0
        /\ Baseline = 0

\* C15: in every state y is the track height at x, trackScale * x * x
C15_YFollowsTrack == state.y = TrackY(state.x)

\* C15 witness: sub-steps have moved the mass off its reset place and y was
\* recomputed from the new x
C15_Witness ==
    /\ Last(hist) = "frame"
    /\ subDt # NoStep
    /\ state.x # ResetX
    /\ state.y # TrackY(ResetX)
    /\ state.y = TrackY(state.x)

\* C16: the friction the integrator uses is 0 whenever the friction toggle is
\* off, is the slider's value whenever it is on, and is never negative
C16_FrictionZeroWhenDisabled ==
    /\ ~toggleChecked => state.friction = 0
    /\ toggleChecked => state.friction = sliderFriction
    /\ state.friction >= 0

\* C16 witness: the friction slider was moved to a positive value while the
\* toggle was off, and the friction in use stayed 0
C16_Witness ==
    /\ Last(hist) = "frictionSlider"
    /\ ~toggleChecked
    /\ sliderFriction > 0
    /\ state.friction = 0

\* the places a drag move can put the mass
DragPlaces == { (mx - centerX) * 100 : mx \in DragXs }

\* C17: a report computed while dragging (by a frame, a drag move or a reset)
\* leaves the baseline equal to the reported potential + kinetic and thermal
\* 0, and no step taken during a drag raises the reported thermal
C17_DragReportsNoThermal ==
    [][/\ (dragging' /\ Last(hist') \in {"frame", "drag", "reset"}) =>
              /\ Baseline' = report'.pe + report'.ke
              /\ report'.thermal = 0
              /\ report'.total = report'.pe + report'.ke
       /\ (dragging /\ dragging') => report'.thermal <= report.thermal]_vars

\* C17 witness: the mass was grabbed where the integrator had carried it, and
\* a frame during the drag took the energy there as the baseline
C17_Witness ==
    /\ dragging
    /\ Last(hist) = "frame"
    /\ state.x \notin DragPlaces \cup {ResetX}
    /\ Baseline > 0
    /\ Baseline = Mechanical
    /\ report.thermal = 0

\* C18: on a step that starts and ends not dragging, a captured baseline is
\* kept by everything but a reset, and a baseline that changes is the
\* reported potential + kinetic, which is positive
C18_BaselineCapturedOnce ==
    [][(~dragging /\ ~dragging') =>
        /\ (Baseline # 0 /\ Last(hist') # "reset") => Baseline' = Baseline
        /\ Baseline' # Baseline =>
              /\ Baseline' = report'.pe + report'.ke
              /\ Baseline' > 0]_vars

\* C18 witness: a frame integrated while not dragging, potential + kinetic
\* has risen above the baseline, and the baseline captured earlier is kept
C18_Witness ==
    /\ ~dragging
    /\ Last(hist) = "frame"
    /\ subDt # NoStep
    /\ Baseline > 0
    /\ Mechanical > Baseline

\* the gravity part of a_t at the state's x, hundredths of a pixel per s^2
GravityTerm == RDiv(-(ScaledG(state) * SinTheta(state.x)), 100)

\* the damping part of a_t, -friction * v
DampingTerm == RDiv(-(state.friction * state.v), 1000)

\* C19: a sub-step takes slope and acceleration at the x it starts from, adds
\* -friction * v to the acceleration only when friction > 0, a term that
\* never has the sign of v, sets v first and then moves x by the new v times
\* cosTheta times dt; with friction 0 only gravity changes v
C19_SubStepSemiImplicit ==
    [][(subDt = NoStep /\ subDt' # NoStep /\ hist' = <<"substep">>) =>
        /\ DampingTerm * state.v <= 0
        /\ state.friction > 0 =>
              state'.v = state.v + RDiv((GravityTerm + DampingTerm) * subDt', 10000)
        /\ state.friction = 0 =>
              state'.v = state.v + RDiv(GravityTerm * subDt', 10000)
        /\ state'.x = state.x
                      + RDiv(RDiv(state'.v * CosTheta(state.x), 10000) * subDt', 10000)
        /\ state'.y = TrackY(state'.x)
        /\ state'.friction = state.friction
        /\ state'.gravity = state.gravity
        /\ state'.initialTotalEnergy = state.initialTotalEnergy]_vars

\* C19 witness: a sub-step ran with friction on from a moving mass and changed
\* both v and x
C19_Witness ==
    /\ hist = <<"substep">>
    /\ subDt \in StepDts
    /\ state.friction > 0
    /\ state.v # 0
    /\ state.v \notin StepVs
    /\ state.x \notin StepXs

\* C20: whenever dragging is true the velocity is 0, and so is the kinetic
\* energy
C20_DraggingAtRest ==
    dragging =>
        /\ state.v = 0
        /\ KineticE(state) = 0

\* C20 witness: the mass was grabbed where the integrator had carried it, the
\* run toggle was pressed during the drag, and a frame left v at 0
C20_Witness ==
    /\ dragging
    /\ simRunning
    /\ Last(hist) = "frame"
    /\ state.x \notin DragPlaces \cup {ResetX}
    /\ state.v = 0

====
